---- MODULE Spec2Model ----
(***************************************************************************)
(* Image feature of the editor: view -> model conversion of <img> and      *)
(* <figure class="image">, autohoisting of images that are not allowed in  *)
(* their context (convertHoistableImage, _findAllowedContext, hoistImage)  *)
(* and model -> view attribute mirroring (modelToViewAttributeConverter).  *)
(*                                                                         *)
(* Every converter is a synchronous callback; a converter is modelled as   *)
(* an operator from the state it reads to the state it leaves, and a       *)
(* specification applies it to inputs drawn from bounded sets.             *)
(***************************************************************************)
EXTENDS Integers, Sequences, FiniteSets, TLC

VARIABLES
    pc,                 \* "ready" before the operation of the run, "done" after it
    schema,             \* the schema oracle: [image: chains at which image[src] is allowed, limits: names]
    context,            \* _findAllowedContext: the context array handed in
    allowedContext,     \* _findAllowedContext: what it returned
    dataOutput,         \* hoistImage: data.output (before, then after the converter)
    autohoistedImages,  \* hoistImage: ids of the model nodes in the WeakSet
    original,           \* hoistImage: data.output as it was when the converter fired
    viewInput,          \* view -> model: the view item handed to the dispatcher
    conv,               \* view -> model: the conversion data (output, context array, consumable,
                        \* autohoistedImages, listeners fired), before and then after the dispatch
    sync                \* model -> view: the image item, its view figure and the attribute events

vars == <<pc, schema, context, allowedContext, dataOutput, autohoistedImages, original,
          viewInput, conv, sync>>

----------------------------------------------------------------------------
(* Bounds of the model. *)

\* longest context chain handed to _findAllowedContext
MaxContext == 3

\* most children of the element handed to hoistImage
MaxChildren == 4

\* nested re-dispatches of one <img> followed before the run is cut off
MaxNest == 3

\* most elements wrapped around an <img> in a converted tree
MaxWrap == 2

\* most children of a converted <figure>
MaxFigureChildren == 2

\* most conversions of an image from one side to the other in a run
MaxTrips == 2

\* most attribute changes of the model item in a run
MaxChanges == 1

\* most dispatches of the event of one attribute change
MaxDispatch == 2

----------------------------------------------------------------------------
(* Sequences. *)

Front(s) == SubSeq(s, 1, Len(s) - 1)

Last(s) == s[Len(s)]

SeqsUpTo(S, n) == UNION {[1..k -> S] : k \in 0..n}

Prefixes(s) == {SubSeq(s, 1, k) : k \in 1..Len(s)}

----------------------------------------------------------------------------
(* Schema oracle.  A context chain is the sequence of the names of its     *)
(* entries, innermost last (an entry is a name or a model element; the     *)
(* converters only ever read its name).                                    *)

Names == {"$root", "div", "p"}

\* schema.check( { name: 'image', attributes: [ 'src' ], inside: chain } ):
\* allowed at the chains listed in sch.image and directly inside the names in sch.inside
SchemaCheck(sch, chain) ==
    \/ chain \in sch.image
    \/ Len(chain) > 0 /\ Last(chain) \in sch.inside

\* schema.limits.has( name )
IsLimit(sch, name) == name \in sch.limits

----------------------------------------------------------------------------
(* _findAllowedContext                                                     *)

NotFound == [found |-> FALSE, context |-> <<>>]

Found(chain) == [found |-> TRUE, context |-> chain]

\* the loop without the limit test of lines 170-173
RECURSIVE SearchLoopNoLimit(_, _)
SearchLoopNoLimit(sch, chain) ==
    IF Len(chain) > 0 /\ ~SchemaCheck(sch, chain)
    THEN SearchLoopNoLimit(sch, Front(chain))
    ELSE IF Len(chain) > 0 THEN Found(chain) ELSE NotFound

\* the search started from the outermost entry instead of the innermost
SearchLoopOutermost(sch, chain) ==
    IF \E p \in Prefixes(chain) : SchemaCheck(sch, p)
    THEN Found(CHOOSE p \in Prefixes(chain) :
                  /\ SchemaCheck(sch, p)
                  /\ \A q \in Prefixes(chain) : SchemaCheck(sch, q) => Len(p) <= Len(q))
    ELSE NotFound

\* The loop of _findAllowedContext on its own copy of the array, and what
\* it returns.
RECURSIVE SearchLoop(_, _)
SearchLoop(sch, chain) ==
    IF Len(chain) > 0 /\ ~SchemaCheck(sch, chain)
    THEN LET parentName == Last(chain)
         IN  IF IsLimit(sch, parentName)
             THEN NotFound
             ELSE SearchLoop(sch, Front(chain))
    ELSE IF Len(chain) > 0 THEN Found(chain) ELSE NotFound

\* context = context.slice(): the search works on a copy.
FindAllowedContext(sch, chain) == SearchLoop(sch, chain)

----------------------------------------------------------------------------
(* Model nodes.  A node is an element, a text node or a document fragment; *)
(* its id stands for its identity (the WeakSet and the tree operations go  *)
(* by identity).  Ids of converted nodes are paths in the view tree; the   *)
(* id of a clone starts with 0, which no path does.                        *)

Absent == "<absent>"

ModelNode(kind, name, id, src, alt, ch) ==
    [kind |-> kind, name |-> name, id |-> id, src |-> src, alt |-> alt, ch |-> ch]

\* data.output = null
NoOutput == ModelNode("none", "", <<>>, Absent, Absent, <<>>)

ModelText(id) == ModelNode("text", "$text", id, Absent, Absent, <<>>)

ModelElement(name, id, src, ch) == ModelNode("element", name, id, src, Absent, ch)

\* new ModelDocumentFragment( children )
ModelDocumentFragment(ch) == ModelNode("fragment", "", <<>>, Absent, Absent, ch)

\* element.clone( false ): same name and attributes, no children, a new identity
CloneShallow(element, i) == [element EXCEPT !.id = <<0>> \o element.id \o <<i>>, !.ch = <<>>]

----------------------------------------------------------------------------
(* hoistImage                                                              *)
(*                                                                         *)
(* newOutput holds references: the entry for data.output is the token      *)
(* Self, read when the fragment is built, so that an entry left in the     *)
(* array while data.output keeps losing children shows its final content.  *)

Self == ModelNode("self", "", <<>>, Absent, Absent, <<>>)

\* autohoistedImages.has( child )
IsAutohoisted(marks, child) == child.id \in marks

\* newOutput.shift()
Shift(s) == IF Len(s) > 0 THEN Tail(s) ELSE s

\* newOutput.unshift( x )
Unshift(s, x) == <<x>> \o s

\* the loop body with lines 253-255 and 258 in the other order
HoistIterationCloneFirst(h, i, marks) ==
    LET child == h.output.ch[i]
        brokenChildrenCount == Len(h.output.ch) - i
        brokenParent ==
            [CloneShallow(h.output, i) EXCEPT !.ch = SubSeq(h.output.ch, i + 1, Len(h.output.ch))]
        shrunk == [h.output EXCEPT !.ch = SubSeq(h.output.ch, 1, i - 1)]
        shifted == Shift(h.newOutput)
        withChild == Unshift(shifted, child)
        withBroken == IF brokenChildrenCount > 0 THEN Unshift(withChild, brokenParent) ELSE withChild
        withOutput == IF Len(shrunk.ch) > 0 THEN Unshift(withBroken, Self) ELSE withBroken
    IN  IF IsAutohoisted(marks, child)
        THEN [h EXCEPT !.output = shrunk, !.newOutput = withOutput]
        ELSE [h EXCEPT !.hasNonAutohoistedChildren = TRUE]

\* the loop body without lines 261-263: data.output is not put back in front
HoistIterationNoLeading(h, i, marks) ==
    LET child == h.output.ch[i]
        brokenChildrenCount == Len(h.output.ch) - i
        brokenParent ==
            [CloneShallow(h.output, i) EXCEPT !.ch = SubSeq(h.output.ch, i + 1, Len(h.output.ch))]
        shrunk == [h.output EXCEPT !.ch = SubSeq(h.output.ch, 1, i - 1)]
        shifted == Shift(h.newOutput)
        withBroken == IF brokenChildrenCount > 0 THEN Unshift(shifted, brokenParent) ELSE shifted
        withChild == Unshift(withBroken, child)
    IN  IF IsAutohoisted(marks, child)
        THEN [h EXCEPT !.output = shrunk, !.newOutput = withChild]
        ELSE [h EXCEPT !.hasNonAutohoistedChildren = TRUE]

\* the loop body making the broken parent whatever brokenChildrenCount is
\* (without the test of line 240)
HoistIterationAlwaysBreak(h, i, marks) ==
    LET child == h.output.ch[i]
        brokenParent ==
            [CloneShallow(h.output, i) EXCEPT !.ch = SubSeq(h.output.ch, i + 1, Len(h.output.ch))]
        shrunk == [h.output EXCEPT !.ch = SubSeq(h.output.ch, 1, i - 1)]
        shifted == Shift(h.newOutput)
        withBroken == Unshift(shifted, brokenParent)
        withChild == Unshift(withBroken, child)
        withOutput == IF Len(shrunk.ch) > 0 THEN Unshift(withChild, Self) ELSE withChild
    IN  IF IsAutohoisted(marks, child)
        THEN [h EXCEPT !.output = shrunk, !.newOutput = withOutput]
        ELSE [h EXCEPT !.hasNonAutohoistedChildren = TRUE]

\* One pass of the for loop (lines 213-267) for index i (1-based here), on
\* h = [output, newOutput, hasNonAutohoistedChildren].
HoistIteration(h, i, marks) ==
    LET child == h.output.ch[i]
        \* line 236
        brokenChildrenCount == Len(h.output.ch) - i
        \* lines 241-242: the clone takes the children after the hoisted one
        brokenParent ==
            [CloneShallow(h.output, i) EXCEPT !.ch = SubSeq(h.output.ch, i + 1, Len(h.output.ch))]
        \* lines 242 and 246: data.output keeps the children before it
        shrunk == [h.output EXCEPT !.ch = SubSeq(h.output.ch, 1, i - 1)]
        \* line 250
        shifted == Shift(h.newOutput)
        \* lines 253-255
        withBroken == IF brokenChildrenCount > 0 THEN Unshift(shifted, brokenParent) ELSE shifted
        \* line 258
        withChild == Unshift(withBroken, child)
        \* lines 261-263
        withOutput == IF Len(shrunk.ch) > 0 THEN Unshift(withChild, Self) ELSE withChild
    IN  IF IsAutohoisted(marks, child)
        THEN [h EXCEPT !.output = shrunk, !.newOutput = withOutput]
        ELSE [h EXCEPT !.hasNonAutohoistedChildren = TRUE]

\* for ( let i = data.output.childCount - 1; i >= 0; i-- )
RECURSIVE HoistScan(_, _, _)
HoistScan(h, i, marks) ==
    IF i < 1 THEN h ELSE HoistScan(HoistIteration(h, i, marks), i - 1, marks)

\* The entries of newOutput as nodes: Self is data.output as it is now.
Resolve(newOutput, output) ==
    [k \in 1..Len(newOutput) |-> IF newOutput[k] = Self THEN output ELSE newOutput[k]]

\* lines 269-281 without the fix of lines 271-277
HoistResultNoFix(h, output) ==
    IF Len(h.newOutput) > 0
    THEN ModelDocumentFragment(Resolve(h.newOutput, h.output))
    ELSE output

\* Lines 269-281 on the state the loop left.
HoistResult(h, output) ==
    IF Len(h.newOutput) > 0
    THEN LET fixed == IF ~h.hasNonAutohoistedChildren
                      THEN Append(h.newOutput, Self)
                      ELSE h.newOutput
         IN  ModelDocumentFragment(Resolve(fixed, h.output))
    ELSE output

\* hoistImage without the return of lines 201-203
HoistImageOnFragments(output, marks) ==
    IF output.kind = "none"
    THEN output
    ELSE HoistResult(
            HoistScan([output |-> output, newOutput |-> <<>>, hasNonAutohoistedChildren |-> FALSE],
                      Len(output.ch), marks),
            output)

\* The whole converter: data.output after it, from data.output before it.
HoistImage(output, marks) ==
    IF output.kind = "none"
    THEN output
    ELSE IF output.kind # "element"
    THEN output
    ELSE HoistResult(
            HoistScan([output |-> output, newOutput |-> <<>>, hasNonAutohoistedChildren |-> FALSE],
                      Len(output.ch), marks),
            output)

----------------------------------------------------------------------------
(* View nodes and the view consumable.                                     *)
(*                                                                         *)
(* A view node is an element (img, figure, p, div), a text node or the     *)
(* document fragment at the top; the path of a node in the converted tree  *)
(* stands for its identity.                                                *)

ViewNode(name, class, src, alt, ch) ==
    [name |-> name, class |-> class, src |-> src, alt |-> alt, ch |-> ch]

ViewImg(src, alt) == ViewNode("img", "", src, alt, <<>>)

ViewText == ViewNode("$text", "", Absent, Absent, <<>>)

ViewElement(name, class, ch) == ViewNode(name, class, Absent, Absent, ch)

ViewDocumentFragment(ch) == ViewNode("$documentFragment", "", Absent, Absent, ch)

\* what ViewConsumable.createFrom registers for a node
HasConsumable(v, item) ==
    CASE item = "name" -> TRUE
      [] item = "class:image" -> v.class = "image"
      [] item = "src" -> v.src # Absent
      [] item = "alt" -> v.alt # Absent

\* consumable.test( node, items ): every item is registered and none is consumed
Test(d, v, path, items) ==
    \A item \in items : HasConsumable(v, item) /\ <<path, item>> \notin d.consumed

\* consumable.consume( node, items ), once test has passed
Consume(d, path, items) ==
    [d EXCEPT !.consumed = @ \cup {<<path, item>> : item \in items}]

\* the pattern /./ of the matchers on src and alt
MatchesAny(value) == value # Absent /\ value # ""

\* the conversion data of a dispatch with nothing converted yet
NewData(chain, consumed) ==
    [output |-> NoOutput, context |-> chain, consumed |-> consumed,
     autohoisted |-> {}, fired |-> <<>>, fault |-> FALSE]

\* what a listener can read and change, for the record of listeners fired
Snapshot(d) ==
    [output |-> d.output, context |-> d.context, consumed |-> d.consumed,
     autohoisted |-> d.autohoisted]

----------------------------------------------------------------------------
(* The listeners of the view -> model dispatcher.  A listener takes the    *)
(* conversion data d (data.output, the shared data.context array, the      *)
(* consumable, the WeakSet), the view item and its path, and gives the     *)
(* data it leaves.  conversionApi.convertItem and convertChildren re-enter *)
(* the dispatcher.                                                         *)

RECURSIVE ConvertItem(_, _, _, _)
RECURSIVE ConvertChildrenFrom(_, _, _, _, _)

\* conversionApi.convertChildren( input, consumable, data ): the converted
\* children, fragments flattened, in a new document fragment
ConvertChildren(v, path, d) ==
    ConvertChildrenFrom(v, path, [d EXCEPT !.output = NoOutput], 1, <<>>)

\* buildViewConverter().from( pattern ).toElement( creator ): the element is
\* made when the pattern matches, the schema allows it here and the match
\* can be consumed; the children of the view element become its children.
ToElement(d, v, path, matches, allowed, items, name, src) ==
    IF matches /\ allowed /\ Test(d, v, path, items)
    THEN LET pushed == [Consume(d, path, items) EXCEPT !.context = Append(@, name)]
             r == ConvertChildren(v, path, pushed)
         IN  IF r.fault
             THEN r
             ELSE [r EXCEPT !.context = Front(@),
                            !.output = ModelElement(name, path, src, r.output.ch)]
    ELSE d

\* imageengine.js 58-60: <img src="..."> to <image src="...">
ViewImageToModel(d, v, path) ==
    ToElement(d, v, path, v.name = "img" /\ MatchesAny(v.src),
              SchemaCheck(schema, d.context), {"name", "src"}, "image", v.src)

\* the converters other features register for their own elements (p, div)
ViewBlockToModel(d, v, path) ==
    ToElement(d, v, path, v.name \in {"p", "div"}, TRUE, {"name"}, v.name, Absent)

\* the dispatcher's converter for text nodes
ConvertText(d, v, path) ==
    IF Test(d, v, path, {"name"})
    THEN [Consume(d, path, {"name"}) EXCEPT !.output = ModelText(path)]
    ELSE d

\* the dispatcher's lowest-priority converter: the children of an item
\* nothing has converted, as a document fragment
ConvertToModelFragment(d, v, path) ==
    IF d.output = NoOutput /\ Test(d, v, path, {"name"})
    THEN ConvertChildren(v, path, Consume(d, path, {"name"}))
    ELSE d

\* setAttributeOn: on every node of a fragment, on an element if the schema
\* allows the attribute there (alt is allowed on an image wherever src is)
SetAttributeOn(node, value, chain) ==
    IF node.kind = "fragment"
    THEN [node EXCEPT !.ch = [k \in 1..Len(node.ch) |->
             IF node.ch[k].name = "image" /\ SchemaCheck(schema, chain)
             THEN [node.ch[k] EXCEPT !.alt = value]
             ELSE node.ch[k]]]
    ELSE IF node.name = "image" /\ SchemaCheck(schema, chain)
    THEN [node EXCEPT !.alt = value]
    ELSE node

\* imageengine.js 68-71: the alt attribute of <img>, set on data.output
ViewAltToModel(d, v, path) ==
    IF v.name = "img" /\ MatchesAny(v.alt) /\ Test(d, v, path, {"alt"})
    THEN LET consumed == Consume(d, path, {"alt"})
             r == IF consumed.output = NoOutput
                  THEN ConvertChildren(v, path, consumed)
                  ELSE consumed
         IN  IF r.fault
             THEN r
             ELSE [r EXCEPT !.output = SetAttributeOn(r.output, v.alt, r.context)]
    ELSE d

\* convertHoistableImage, with depth the number of dispatches of this <img>
\* that are still on the stack.  newData is a copy of data with its own
\* context array, so data.context is as it was when convertItem returns;
\* WeakSet.add throws on a value that is not an object.
ConvertHoistableImage(d, v, path, depth) ==
    IF ~Test(d, v, path, {"name", "src"})
    THEN d
    ELSE LET allowed == FindAllowedContext(schema, d.context)
         IN  IF ~allowed.found
             THEN d
             ELSE IF depth >= MaxNest
             THEN [d EXCEPT !.fault = TRUE]
             ELSE LET r == ConvertItem(v, path, [d EXCEPT !.context = allowed.context], depth + 1)
                  IN  IF r.fault
                      THEN [r EXCEPT !.context = d.context]
                      ELSE IF r.output = NoOutput
                      THEN [r EXCEPT !.context = d.context, !.fault = TRUE]
                      ELSE [r EXCEPT !.context = d.context,
                                     !.autohoisted = @ \cup {r.output.id}]

\* the low-priority 'element' listener made by hoistImage()
HoistImageListener(d) ==
    [d EXCEPT !.output = HoistImage(d.output, d.autohoisted)]

\* index of the first <img> among the children, 0 when there is none
FirstImg(v) ==
    IF \E k \in 1..Len(v.ch) : v.ch[k].name = "img"
    THEN CHOOSE k \in 1..Len(v.ch) :
            /\ v.ch[k].name = "img"
            /\ \A j \in 1..(k - 1) : v.ch[j].name # "img"
    ELSE 0

\* viewFigureToModel from line 48 on, k the index of the <img> found.  A
\* modelImage that is no element makes ModelPosition.createAt throw.
FoldFigure(d, v, path, k) ==
    LET img == ConvertItem(v.ch[k], path \o <<k>>, d, 0)
        modelImage == img.output
    IN  IF img.fault
        THEN [img EXCEPT !.output = d.output]
        ELSE IF modelImage.kind # "element"
        THEN [img EXCEPT !.output = d.output, !.fault = TRUE]
        ELSE LET pushed == [img EXCEPT !.context = Append(@, modelImage.name)]
                 r == ConvertChildren(v, path, pushed)
             IN  IF r.fault
                 THEN [r EXCEPT !.output = d.output]
                 ELSE [r EXCEPT !.context = Front(@),
                                !.output = [modelImage EXCEPT
                                               !.ch = r.output.ch \o modelImage.ch]]

\* viewFigureToModel consuming the figure where it only tests it (line 31)
ViewFigureToModelConsuming(d, v, path) ==
    LET k == FirstImg(v)
        taken == Consume(d, path, {"name", "class:image"})
    IN  IF ~Test(d, v, path, {"name", "class:image"})
        THEN d
        ELSE IF ~SchemaCheck(schema, d.context)
        THEN taken
        ELSE IF k = 0 \/ v.ch[k].src = Absent \/ ~Test(d, v.ch[k], path \o <<k>>, {"name"})
        THEN taken
        ELSE FoldFigure(taken, v, path, k)

\* viewFigureToModel
ViewFigureToModel(d, v, path) ==
    LET k == FirstImg(v)
    IN  IF ~Test(d, v, path, {"name", "class:image"})
        THEN d
        ELSE IF ~SchemaCheck(schema, d.context)
        THEN d
        ELSE IF k = 0 \/ v.ch[k].src = Absent \/ ~Test(d, v.ch[k], path \o <<k>>, {"name"})
        THEN d
        ELSE FoldFigure(d, v, path, k)

----------------------------------------------------------------------------
(* The dispatcher.                                                         *)

\* hoistImage registered for <img> and the block elements but not for <figure>
ListenersNoFigureRepair(v) ==
    CASE v.name = "img" ->
            <<"viewImageToModel", "convertHoistableImage", "hoistImage", "viewAltToModel",
              "convertToModelFragment">>
      [] v.name = "figure" -> <<"viewFigureToModel", "convertToModelFragment">>
      [] v.name \in {"p", "div"} -> <<"viewBlockToModel", "hoistImage", "convertToModelFragment">>
      [] v.name = "$text" -> <<"convertText">>
      [] OTHER -> <<"convertToModelFragment">>

\* convertHoistableImage registered ahead of the <img> converter
ListenersHoistFirst(v) ==
    CASE v.name = "img" ->
            <<"convertHoistableImage", "viewImageToModel", "hoistImage", "viewAltToModel",
              "convertToModelFragment">>
      [] v.name = "figure" -> <<"viewFigureToModel", "hoistImage", "convertToModelFragment">>
      [] v.name \in {"p", "div"} -> <<"viewBlockToModel", "hoistImage", "convertToModelFragment">>
      [] v.name = "$text" -> <<"convertText">>
      [] OTHER -> <<"convertToModelFragment">>

\* The listeners of the event fired for a view item, in the order they
\* fire: by priority (normal, low, lowest), then by registration
\* (imageengine.js 57-74).
Listeners(v) ==
    CASE v.name = "img" ->
            <<"viewImageToModel", "convertHoistableImage", "hoistImage", "viewAltToModel",
              "convertToModelFragment">>
      [] v.name = "figure" -> <<"viewFigureToModel", "hoistImage", "convertToModelFragment">>
      [] v.name \in {"p", "div"} -> <<"viewBlockToModel", "hoistImage", "convertToModelFragment">>
      [] v.name = "$text" -> <<"convertText">>
      [] OTHER -> <<"convertToModelFragment">>

\* One listener fired; the record of it is added to d.fired.  An exception
\* thrown by a listener ends the whole conversion.
Fire(listener, d, v, path, depth) ==
    IF d.fault
    THEN d
    ELSE LET r == CASE listener = "viewImageToModel" -> ViewImageToModel(d, v, path)
                    [] listener = "convertHoistableImage" -> ConvertHoistableImage(d, v, path, depth)
                    [] listener = "hoistImage" -> HoistImageListener(d)
                    [] listener = "viewAltToModel" -> ViewAltToModel(d, v, path)
                    [] listener = "viewFigureToModel" -> ViewFigureToModel(d, v, path)
                    [] listener = "viewBlockToModel" -> ViewBlockToModel(d, v, path)
                    [] listener = "convertText" -> ConvertText(d, v, path)
                    [] listener = "convertToModelFragment" -> ConvertToModelFragment(d, v, path)
         IN  [r EXCEPT !.fired = Append(@, [listener |-> listener, path |-> path, depth |-> depth,
                                            before |-> Snapshot(d), after |-> Snapshot(r),
                                            fault |-> r.fault])]

RECURSIVE FireAll(_, _, _, _, _)
FireAll(listeners, d, v, path, depth) ==
    IF listeners = <<>>
    THEN d
    ELSE FireAll(Tail(listeners), Fire(Head(listeners), d, v, path, depth), v, path, depth)

\* conversionApi.convertItem( input, consumable, data ): a new data object
\* with the same context array and no output; the result is its output.
ConvertItem(v, path, d, depth) ==
    FireAll(Listeners(v), [d EXCEPT !.output = NoOutput], v, path, depth)

\* the children from the k-th on, acc the nodes converted so far
ConvertChildrenFrom(v, path, d, k, acc) ==
    IF d.fault
    THEN d
    ELSE IF k > Len(v.ch)
    THEN [d EXCEPT !.output = ModelDocumentFragment(acc)]
    ELSE LET r == ConvertItem(v.ch[k], path \o <<k>>, d, 0)
             converted == CASE r.output.kind = "none" -> <<>>
                            [] r.output.kind = "fragment" -> r.output.ch
                            [] OTHER -> <<r.output>>
         IN  ConvertChildrenFrom(v, path, r, k + 1, acc \o converted)

----------------------------------------------------------------------------
(* Specification SpecFind: _findAllowedContext applied to any context      *)
(* chain under any schema (validity chosen freely for every prefix of the  *)
(* chain, any set of limit names).                                         *)

IdleHoist ==
    /\ dataOutput = <<>>
    /\ autohoistedImages = {}
    /\ original = <<>>

IdleFind ==
    /\ context = <<>>
    /\ allowedContext = NotFound

IdleConv ==
    /\ viewInput = ViewText
    /\ conv = NewData(<<>>, {})

IdleSync == sync = <<>>

InitFind ==
    /\ pc = "ready"
    /\ context \in SeqsUpTo(Names, MaxContext)
    /\ \E image \in SUBSET Prefixes(context), limits \in SUBSET Names :
          schema = [image |-> image, inside |-> {}, limits |-> limits]
    /\ allowedContext = NotFound
    /\ IdleHoist
    /\ IdleConv
    /\ IdleSync

Find ==
    /\ pc = "ready"
    /\ allowedContext' = FindAllowedContext(schema, context)
    /\ pc' = "done"
    /\ UNCHANGED <<schema, context, dataOutput, autohoistedImages, original, viewInput, conv, sync>>

NextFind == Find

SpecFind == InitFind /\ [][NextFind]_vars

----------------------------------------------------------------------------
(* C2: the search never returns a context reached by popping a limit       *)
(* entry: a returned context is a prefix of the chain handed in and none   *)
(* of the entries above it is a limit; and when the innermost invalid      *)
(* entries up to the nearest valid prefix include a limit, nothing is      *)
(* returned, whatever validates beyond it.                                 *)

PoppedNames(chain, kept) == {chain[k] : k \in (Len(kept) + 1)..Len(chain)}

HoistSearchStopsAtLimits ==
    pc = "done" =>
        /\ allowedContext.found =>
              /\ allowedContext.context \in Prefixes(context)
              /\ \A n \in PoppedNames(context, allowedContext.context) : ~IsLimit(schema, n)
        /\ \A k \in 1..Len(context) :
              ( /\ ~SchemaCheck(schema, SubSeq(context, 1, k))
                /\ IsLimit(schema, context[k])
                /\ \A j \in k..Len(context) : ~SchemaCheck(schema, SubSeq(context, 1, j)) )
              => ~allowedContext.found

\* img in a disallowed inline context inside a limit container inside a valid root
LimitBlocksValidAncestor ==
    /\ pc = "done"
    /\ Len(context) = 3
    /\ SchemaCheck(schema, SubSeq(context, 1, 1))
    /\ ~SchemaCheck(schema, SubSeq(context, 1, 2))
    /\ ~SchemaCheck(schema, context)
    /\ IsLimit(schema, context[2])
    /\ ~IsLimit(schema, context[3])
    /\ ~allowedContext.found

(* C11: nearest valid ancestor.  A context returned by _findAllowedContext  *)
(* is a non-empty prefix of the chain handed in, the image is valid at it, *)
(* and no longer prefix of the chain is valid; when no non-empty prefix is *)
(* valid nothing is returned.                                              *)
NearestValidAncestor ==
    pc = "done" =>
        /\ allowedContext.found =>
              /\ Len(allowedContext.context) > 0
              /\ allowedContext.context \in Prefixes(context)
              /\ SchemaCheck(schema, allowedContext.context)
              /\ \A p \in Prefixes(context) :
                    Len(p) > Len(allowedContext.context) => ~SchemaCheck(schema, p)
        /\ (\A p \in Prefixes(context) : ~SchemaCheck(schema, p)) => ~allowedContext.found

\* two valid ancestors above a disallowed innermost entry: the nearer one is returned
NearerOfTwoValidAncestors ==
    /\ pc = "done"
    /\ Len(context) = 3
    /\ SchemaCheck(schema, SubSeq(context, 1, 1))
    /\ SchemaCheck(schema, SubSeq(context, 1, 2))
    /\ ~SchemaCheck(schema, context)
    /\ allowedContext = Found(SubSeq(context, 1, 2))

----------------------------------------------------------------------------
(* Specification SpecHoist: hoistImage fired with any data.output: none,   *)
(* a text node, a document fragment, or an element (a paragraph, or an     *)
(* image produced from a figure) whose children are, in any arrangement,   *)
(* autohoisted images ("H"), images converted in place ("I") and text      *)
(* nodes ("T").                                                            *)

ChildKinds == {"H", "I", "T"}

ChildOf(parentId, k, kind) ==
    IF kind = "T"
    THEN ModelText(parentId \o <<k>>)
    ELSE ModelElement("image", parentId \o <<k>>, "x", <<>>)

ChildrenOf(parentId, kinds) == [k \in 1..Len(kinds) |-> ChildOf(parentId, k, kinds[k])]

MarksOf(parentId, kinds) == {parentId \o <<k>> : k \in {j \in 1..Len(kinds) : kinds[j] = "H"}}

HoistInputs(kinds) ==
    { ModelElement("p", <<1>>, Absent, ChildrenOf(<<1>>, kinds)),
      ModelElement("image", <<1>>, "y", ChildrenOf(<<1>>, kinds)),
      ModelDocumentFragment(ChildrenOf(<<1>>, kinds)) }
    \cup {NoOutput, ModelText(<<1>>)}

InitHoist ==
    /\ pc = "ready"
    /\ schema = [image |-> {}, inside |-> {}, limits |-> {}]
    /\ \E kinds \in SeqsUpTo(ChildKinds, MaxChildren) :
          /\ dataOutput \in HoistInputs(kinds)
          /\ autohoistedImages = MarksOf(<<1>>, kinds)
    /\ original = dataOutput
    /\ IdleFind
    /\ IdleConv
    /\ IdleSync

Hoist ==
    /\ pc = "ready"
    /\ dataOutput' = HoistImage(dataOutput, autohoistedImages)
    /\ pc' = "done"
    /\ UNCHANGED <<schema, context, allowedContext, autohoistedImages, original, viewInput, conv, sync>>

\* the listener fired once more, on the output it left (a duplicate dispatch)
HoistAgain ==
    /\ pc = "done"
    /\ dataOutput' = HoistImage(dataOutput, autohoistedImages)
    /\ pc' = "again"
    /\ UNCHANGED <<schema, context, allowedContext, autohoistedImages, original, viewInput, conv, sync>>

NextHoist == Hoist \/ HoistAgain

SpecHoist == InitHoist /\ [][NextHoist]_vars

\* The children of the element the converter was fired with, and which carry the marker.
Kids == original.ch

Marked(k) == IsAutohoisted(autohoistedImages, Kids[k])

\* hoistImage ran on an element with at least one marked child
Repaired ==
    /\ pc = "done"
    /\ original.kind = "element"
    /\ \E k \in 1..Len(Kids) : Marked(k)

\* a top-level entry that is a piece of the original element: its name and
\* attributes, and not one of its children
IsPiece(e) ==
    /\ e.kind = "element"
    /\ e.name = original.name
    /\ e.src = original.src
    /\ e.alt = original.alt
    /\ \A k \in 1..Len(Kids) : e.id # Kids[k].id

\* Kids[a..b] is a maximal run of unmarked children
MaximalRun(a, b) ==
    /\ a <= b
    /\ \A k \in a..b : ~Marked(k)
    /\ a = 1 \/ Marked(a - 1)
    /\ b = Len(Kids) \/ Marked(b + 1)

\* the fragment read left to right, descending into the pieces
RECURSIVE Reading(_)
Reading(entries) ==
    IF entries = <<>>
    THEN <<>>
    ELSE (IF IsPiece(Head(entries)) THEN Head(entries).ch ELSE <<Head(entries)>>)
         \o Reading(Tail(entries))

(* C1: repair ordering.  After hoistImage on an element with a marked      *)
(* child the result is a fragment in which (a) every marked child is a     *)
(* top-level entry, (b) every maximal run of unmarked children is the      *)
(* content of exactly one top-level piece of the original element, and     *)
(* (c) reading the fragment left to right gives the original children,     *)
(* each once, in the original order.                                       *)
RepairOrdering ==
    Repaired =>
        /\ dataOutput.kind = "fragment"
        /\ \A k \in 1..Len(Kids) :
              Marked(k) => \E j \in 1..Len(dataOutput.ch) : dataOutput.ch[j] = Kids[k]
        /\ \A a, b \in 1..Len(Kids) :
              MaximalRun(a, b) =>
                  Cardinality({j \in 1..Len(dataOutput.ch) :
                                  /\ IsPiece(dataOutput.ch[j])
                                  /\ dataOutput.ch[j].ch = SubSeq(Kids, a, b)}) = 1
        /\ \A j \in 1..Len(dataOutput.ch) :
              \/ IsPiece(dataOutput.ch[j])
              \/ \E k \in 1..Len(Kids) : Marked(k) /\ dataOutput.ch[j] = Kids[k]
        /\ Reading(dataOutput.ch) = Kids

\* [A, hoisted(H), B, C] gives [elem(A), H, clone(B, C)]
RepairedAHBC ==
    /\ Repaired
    /\ Len(Kids) = 4
    /\ ~Marked(1) /\ Marked(2) /\ ~Marked(3) /\ ~Marked(4)
    /\ Len(dataOutput.ch) = 3
    /\ dataOutput.ch[1] = [original EXCEPT !.ch = <<Kids[1]>>]
    /\ dataOutput.ch[2] = Kids[2]
    /\ IsPiece(dataOutput.ch[3])
    /\ dataOutput.ch[3].id # original.id
    /\ dataOutput.ch[3].ch = <<Kids[3], Kids[4]>>

(* C3: emptied container is kept.  When every child (one or more) carries  *)
(* the marker, the result is the children in their order followed by the   *)
(* original element, now empty.                                            *)
EmptiedContainerKept ==
    (Repaired /\ \A k \in 1..Len(Kids) : Marked(k)) =>
        /\ dataOutput.kind = "fragment"
        /\ dataOutput.ch = Kids \o <<[original EXCEPT !.ch = <<>>]>>

\* the only child is hoisted: [H, emptyClone]
OnlyChildHoisted ==
    /\ Repaired
    /\ Len(Kids) = 1
    /\ dataOutput.ch = <<Kids[1], [original EXCEPT !.ch = <<>>]>>

(* C15: no spurious empty segment.  When the element has at least one      *)
(* marked and at least one unmarked child, every top-level entry of the    *)
(* fragment other than the promoted children themselves (every segment of  *)
(* the element) has at least one child, and the number of top-level        *)
(* entries is the number of marked children plus the number of maximal     *)
(* runs of unmarked children.                                              *)
NoSpuriousEmptySegment ==
    (Repaired /\ \E k \in 1..Len(Kids) : ~Marked(k)) =>
        /\ dataOutput.kind = "fragment"
        /\ \A j \in 1..Len(dataOutput.ch) :
              \/ \E k \in 1..Len(Kids) : Marked(k) /\ dataOutput.ch[j] = Kids[k]
              \/ dataOutput.ch[j].kind = "element" /\ Len(dataOutput.ch[j].ch) > 0
        /\ Len(dataOutput.ch) =
              Cardinality({k \in 1..Len(Kids) : Marked(k)})
              + Cardinality({r \in (1..Len(Kids)) \X (1..Len(Kids)) : MaximalRun(r[1], r[2])})

\* marked children at both ends, two of them adjacent: [H, T, H, H] gives [H, elem(T), H, H]
MarkedAtBothEnds ==
    /\ Repaired
    /\ Len(Kids) = 4
    /\ Marked(1) /\ ~Marked(2) /\ Marked(3) /\ Marked(4)
    /\ dataOutput.ch = <<Kids[1], [original EXCEPT !.ch = <<Kids[2]>>, !.id = dataOutput.ch[2].id],
                         Kids[3], Kids[4]>>

\* the loop from index j down to index stop + 1
RECURSIVE HoistScanDownTo(_, _, _, _)
HoistScanDownTo(h, j, stop, marks) ==
    IF j <= stop THEN h ELSE HoistScanDownTo(HoistIteration(h, j, marks), j - 1, stop, marks)

\* newOutput as the pass for the i-th child finds it, that is, as it is at
\* newOutput.shift() (line 250) when that child is marked
NewOutputAtShift(i) ==
    HoistScanDownTo([output |-> original, newOutput |-> <<>>, hasNonAutohoistedChildren |-> FALSE],
                    Len(Kids), i, autohoistedImages).newOutput

(* C19: leading-entry invariant of the repair loop.  Each time hoistImage  *)
(* drops the first entry of newOutput for a marked child, newOutput is     *)
(* empty or its first entry is data.output itself: never a hoisted child   *)
(* or a clone.                                                             *)
LeadingEntryIsOutput ==
    (pc = "done" /\ original.kind = "element") =>
        \A i \in 1..Len(Kids) :
            Marked(i) => \/ NewOutputAtShift(i) = <<>>
                         \/ Head(NewOutputAtShift(i)) = Self

\* [T, H, H]: the pass for the second child drops data.output from [data.output, H]
LeadingOutputDropped ==
    /\ Repaired
    /\ Len(Kids) = 3
    /\ ~Marked(1) /\ Marked(2) /\ Marked(3)
    /\ NewOutputAtShift(2) = <<Self, Kids[3]>>
    /\ dataOutput.ch = <<[original EXCEPT !.ch = <<Kids[1]>>], Kids[2], Kids[3]>>

(* C14: repair is a no-op when nothing is marked, and idempotent.  Fired   *)
(* with no output, a text node, a document fragment or an element none of  *)
(* whose children is marked, hoistImage leaves data.output, children       *)
(* included, as it was; fired a second time on its own output it changes   *)
(* nothing.                                                                *)
RepairNoOpAndIdempotent ==
    /\ []((pc = "done" /\ (original.kind # "element" \/ \A k \in 1..Len(Kids) : ~Marked(k)))
            => dataOutput = original)
    /\ [][pc = "done" => dataOutput' = dataOutput]_vars

\* the second run on the fragment the first one made of <p>T H T</p>
RepairedTwice ==
    /\ pc = "again"
    /\ original.kind = "element"
    /\ Len(Kids) = 3
    /\ ~Marked(1) /\ Marked(2) /\ ~Marked(3)
    /\ dataOutput.kind = "fragment"
    /\ Len(dataOutput.ch) = 3

----------------------------------------------------------------------------
(* The view -> model specifications.  One action: the dispatcher converts  *)
(* the view item (conversionApi.convertItem, or convert for a whole tree). *)

Convert ==
    /\ pc = "ready"
    /\ conv' = ConvertItem(viewInput, <<1>>, conv, 0)
    /\ pc' = "done"
    /\ UNCHANGED <<schema, context, allowedContext, dataOutput, autohoistedImages, original,
                   viewInput, sync>>

NextConv == Convert

\* the result holds a model node at all
RECURSIVE HasNode(_)
HasNode(node) ==
    \/ node.kind \in {"element", "text"}
    \/ \E k \in 1..Len(node.ch) : HasNode(node.ch[k])

\* the listeners fired for the view item at path, as indices into conv.fired
FiredAt(path) == {n \in 1..Len(conv.fired) : conv.fired[n].path = path}

(* SpecImg: the dispatch of one <img> (src absent, empty or not; alt       *)
(* absent, empty or not; its name consumed beforehand by a listener of     *)
(* higher priority, or not) in any context chain, under any schema:        *)
(* validity chosen freely for every prefix of the chain, any limits.       *)

AttrValues == {Absent, "", "x"}

InitImg ==
    /\ pc = "ready"
    /\ \E src \in AttrValues, alt \in AttrValues : viewInput = ViewImg(src, alt)
    /\ \E chain \in SeqsUpTo(Names, MaxContext) :
          /\ \E image \in SUBSET Prefixes(chain), limits \in SUBSET {"div", "p"} :
                schema = [image |-> image, inside |-> {}, limits |-> limits]
          /\ \E consumed \in {{}, {<<<<1>>, "name">>}} : conv = NewData(chain, consumed)
    /\ IdleFind
    /\ IdleHoist
    /\ IdleSync

SpecImg == InitImg /\ [][NextConv]_vars

(* SpecPass: a whole pass (DataController.parse( data, context )) over a   *)
(* document fragment holding an <img src="x"> wrapped in up to MaxWrap     *)
(* elements, with or without text beside it at each level.  The schema     *)
(* allows the image in $root (imageengine.js 41) and in whichever other    *)
(* elements other features allow it; div may be a limit.                   *)

Siblings == {"none", "before", "after", "both"}

Wrap(name, tree, siblings) ==
    ViewElement(name, "",
        (IF siblings \in {"before", "both"} THEN <<ViewText>> ELSE <<>>)
        \o <<tree>>
        \o (IF siblings \in {"after", "both"} THEN <<ViewText>> ELSE <<>>))

RECURSIVE WrappedImgs(_)
WrappedImgs(n) ==
    IF n = 0
    THEN {ViewImg("x", Absent), ViewImg("x", "x")}
    ELSE WrappedImgs(n - 1)
         \cup {Wrap(name, tree, siblings) :
                  name \in {"p", "div"}, tree \in WrappedImgs(n - 1), siblings \in Siblings}

InitPass ==
    /\ pc = "ready"
    /\ \E tree \in WrappedImgs(MaxWrap) : viewInput = ViewDocumentFragment(<<tree>>)
    /\ \E inside \in SUBSET {"div", "p"}, limits \in SUBSET {"div"} :
          schema = [image |-> {}, inside |-> {"$root"} \cup inside, limits |-> limits]
    /\ \E root \in {"$root", "div"} : conv = NewData(<<root>>, {})
    /\ IdleFind
    /\ IdleHoist
    /\ IdleSync

SpecPass == InitPass /\ [][NextConv]_vars

(* SpecFigure: the dispatch of one <figure>, with or without the class     *)
(* image, with up to MaxFigureChildren children (images, text, a caption   *)
(* paragraph), at the top or inside a div, the names of the figure and of  *)
(* its first child consumed beforehand or not.                             *)

FigureChildren ==
    {ViewImg(Absent, Absent), ViewImg("", Absent), ViewImg("x", Absent), ViewImg("x", "x"),
     ViewText, ViewElement("p", "", <<ViewText>>)}

InitFigure ==
    /\ pc = "ready"
    /\ \E class \in {"image", ""}, ch \in SeqsUpTo(FigureChildren, MaxFigureChildren) :
          viewInput = ViewElement("figure", class, ch)
    /\ \E inside \in SUBSET {"div"}, limits \in SUBSET {"div"} :
          schema = [image |-> {}, inside |-> {"$root"} \cup inside, limits |-> limits]
    /\ \E chain \in {<<"$root">>, <<"$root", "div">>},
          consumed \in SUBSET {<<<<1>>, "name">>, <<<<1, 1>>, "name">>} :
          conv = NewData(chain, consumed)
    /\ IdleFind
    /\ IdleHoist
    /\ IdleSync

SpecFigure == InitFigure /\ [][NextConv]_vars

----------------------------------------------------------------------------
(* Where the images of the result are: each image element of the converted *)
(* tree with the names of its ancestors, from the context of the           *)
(* conversion down to its parent.                                          *)

RECURSIVE Locate(_, _)
Locate(node, chain) ==
    (IF node.kind = "element" /\ node.name = "image"
     THEN {[id |-> node.id, chain |-> chain]}
     ELSE {})
    \cup UNION {Locate(node.ch[k], IF node.kind = "element" THEN Append(chain, node.name) ELSE chain) :
                   k \in 1..Len(node.ch)}

\* the conversion ran to its end without an exception
Completed == pc = "done" /\ ~conv.fault

\* the n-th listener fired was convertHoistableImage marking an image it
\* had converted in a context above the one of the <img>
Hoisted(n) ==
    /\ conv.fired[n].listener = "convertHoistableImage"
    /\ conv.fired[n].depth = 0
    /\ conv.fired[n].after.autohoisted # conv.fired[n].before.autohoisted

\* the context _findAllowedContext gave that listener
FoundContext(n) == FindAllowedContext(schema, conv.fired[n].before.context).context

(* C4: a hoisted image lands at the found context: after the pass the      *)
(* image converted for an <img> whose allowed context C is a proper prefix *)
(* of its own is a child of the element for the innermost entry of C, its  *)
(* ancestors being exactly the entries of C.                               *)
HoistedLandsAtFoundContext ==
    Completed =>
        \A n \in 1..Len(conv.fired) :
            (Hoisted(n) /\ Len(FoundContext(n)) < Len(conv.fired[n].before.context)) =>
                /\ \E loc \in Locate(conv.output, conv.context) : loc.id = conv.fired[n].path
                /\ \A loc \in Locate(conv.output, conv.context) :
                      loc.id = conv.fired[n].path => loc.chain = FoundContext(n)

(* C5: valid forest: after a complete pass every image of the result sits  *)
(* under a chain of ancestors at which the schema allows image[src].       *)
ValidForest ==
    Completed =>
        \A loc \in Locate(conv.output, conv.context) : SchemaCheck(schema, loc.chain)

\* the n-th listener fired was hoistImage on an element with the node id
\* among its children
RepairsParentOf(n, id) ==
    /\ conv.fired[n].listener = "hoistImage"
    /\ conv.fired[n].before.output.kind = "element"
    /\ \E k \in 1..Len(conv.fired[n].before.output.ch) : conv.fired[n].before.output.ch[k].id = id

(* C12: the marker is consulted and cleared once.  When hoistImage has     *)
(* promoted a marked child out of its parent the node is no longer in      *)
(* autohoistedImages, and a later hoistImage on an enclosing element whose *)
(* child it then is leaves that element as it is.                          *)
MarkerClearedOnce ==
    Completed =>
        \A n \in 1..Len(conv.fired) : \A id \in conv.fired[n].before.autohoisted :
            RepairsParentOf(n, id) =>
                /\ id \notin conv.fired[n].after.autohoisted
                /\ \A m \in (n + 1)..Len(conv.fired) :
                      RepairsParentOf(m, id) => conv.fired[m].after.output = conv.fired[m].before.output

----------------------------------------------------------------------------
(* Claims about the figure converter (SpecFigure).                         *)

\* the record of viewFigureToModel fired for the figure handed in
FigureFired(n) ==
    /\ n \in FiredAt(<<1>>)
    /\ conv.fired[n].listener = "viewFigureToModel"

\* the figure is one the converter takes: an unconsumed figure with class
\* image, in a context where image is allowed, whose first <img> has a src
\* attribute and is unconsumed
FigureTaken(before) ==
    /\ viewInput.name = "figure"
    /\ Test(before, viewInput, <<1>>, {"name", "class:image"})
    /\ SchemaCheck(schema, before.context)
    /\ FirstImg(viewInput) # 0
    /\ viewInput.ch[FirstImg(viewInput)].src # Absent
    /\ Test(before, viewInput.ch[FirstImg(viewInput)], <<1, FirstImg(viewInput)>>, {"name"})

\* the image a view <img> stands for
ImageFor(v, path) ==
    [ModelElement("image", path, v.src, <<>>) EXCEPT
        !.alt = IF MatchesAny(v.alt) THEN v.alt ELSE Absent]

\* what the k-th child of the figure contributes to the children of the image
Contribution(k) ==
    LET v == viewInput.ch[k]
        path == <<1, k>>
    IN  CASE k = FirstImg(viewInput) -> <<>>
          [] v.name = "$text" -> <<ModelText(path)>>
          [] v.name = "p" -> <<ModelElement("p", path, Absent, <<ModelText(path \o <<1>>)>>)>>
          [] v.name = "img" /\ MatchesAny(v.src) -> <<ImageFor(v, path)>>
          [] OTHER -> <<>>

RECURSIVE Contributions(_)
Contributions(k) ==
    IF k > Len(viewInput.ch) THEN <<>> ELSE Contribution(k) \o Contributions(k + 1)

\* the output viewFigureToModel is to set: one image for the first <img>,
\* holding the conversions of the other children in their order
FoldedFigure ==
    [ImageFor(viewInput.ch[FirstImg(viewInput)], <<1, FirstImg(viewInput)>>) EXCEPT
        !.ch = Contributions(1)]

(* C6: figure fold.  For a figure the converter takes, with nothing        *)
(* consumed beforehand, viewFigureToModel sets as output one image with    *)
(* the src of the first <img> and, as children, the conversions of the     *)
(* other children of the figure in their order; the <img> itself is        *)
(* converted once and contributes no child.                                *)
FigureFold ==
    pc = "done" =>
        \A n \in 1..Len(conv.fired) :
            (FigureFired(n) /\ FigureTaken(conv.fired[n].before)
                            /\ conv.fired[n].before.consumed = {}) =>
                /\ ~conv.fired[n].fault
                /\ conv.fired[n].after.output = FoldedFigure

\* C6 for figures all of whose <img> children with a src have a non-empty one
FigureFoldNonEmptySrc ==
    (\A k \in 1..Len(viewInput.ch) : viewInput.ch[k].src # "") => FigureFold

\* <figure class="image"><img src="x"><p>caption</p></figure>
FigureWithCaptionFolded ==
    /\ pc = "done"
    /\ viewInput = ViewElement("figure", "image",
                               <<ViewImg("x", Absent), ViewElement("p", "", <<ViewText>>)>>)
    /\ conv.output = [ModelElement("image", <<1, 1>>, "x", <<>>) EXCEPT
                         !.ch = <<ModelElement("p", <<1, 2>>, Absent, <<ModelText(<<1, 2, 1>>)>>)>>]

\* the converter is to decline: one of the conditions it returns on holds
FigureDeclined(before) ==
    \/ ~Test(before, viewInput, <<1>>, {"name", "class:image"})
    \/ ~SchemaCheck(schema, before.context)
    \/ FirstImg(viewInput) = 0
    \/ viewInput.ch[FirstImg(viewInput)].src = Absent
    \/ ~Test(before, viewInput.ch[FirstImg(viewInput)], <<1, FirstImg(viewInput)>>, {"name"})

(* C9: figure decline leaves no trace.  Whenever viewFigureToModel         *)
(* declines it consumes nothing, sets no output and leaves the context     *)
(* chain (and the marker set) as they were; a figure holding only an       *)
(* <img> without src yields no model node.                                 *)
FigureDeclineLeavesNoTrace ==
    pc = "done" =>
        /\ \A n \in 1..Len(conv.fired) :
              (FigureFired(n) /\ FigureDeclined(conv.fired[n].before)) =>
                  /\ ~conv.fired[n].fault
                  /\ conv.fired[n].after = conv.fired[n].before
                  /\ conv.fired[n].after.output = NoOutput
        /\ (Len(viewInput.ch) = 1 /\ viewInput.ch[1].name = "img" /\ viewInput.ch[1].src = Absent)
              => ~conv.fault /\ ~HasNode(conv.output)

\* a figure with class image holding only an <img> without src, declined
FigureWithoutSrcDeclined ==
    /\ pc = "done"
    /\ viewInput = ViewElement("figure", "image", <<ViewImg(Absent, Absent)>>)
    /\ SchemaCheck(schema, conv.context)
    /\ \E n \in 1..Len(conv.fired) :
          /\ FigureFired(n)
          /\ conv.fired[n].before.consumed = {}
          /\ conv.fired[n].after = conv.fired[n].before
    /\ ~HasNode(conv.output)

\* no image element of the tree has an image element among its children
RECURSIVE NoImageInImage(_)
NoImageInImage(node) ==
    /\ node.name = "image" => \A k \in 1..Len(node.ch) : node.ch[k].name # "image"
    /\ \A k \in 1..Len(node.ch) : NoImageInImage(node.ch[k])

(* C16: no image inside an image.  When the dispatch of a figure has       *)
(* completed (viewFigureToModel, then hoistImage), no image of the result  *)
(* has an image among its children, also when the figure holds more than   *)
(* one <img> with a src.                                                   *)
NoNestedImage ==
    Completed => NoImageInImage(conv.output)

\* <figure class="image"><img src="x"><img src="x"></figure>: the second image was
\* converted as a child of the first and hoistImage has taken it out
SecondImageTakenOut ==
    /\ Completed
    /\ viewInput = ViewElement("figure", "image", <<ViewImg("x", Absent), ViewImg("x", Absent)>>)
    /\ conv.fired[1].before.consumed = {}
    /\ \E n \in 1..Len(conv.fired) :
          /\ FigureFired(n)
          /\ conv.fired[n].after.output =
                ModelElement("image", <<1, 1>>, "x", <<ModelElement("image", <<1, 2>>, "x", <<>>)>>)
    /\ conv.output = ModelDocumentFragment(<<ModelElement("image", <<1, 2>>, "x", <<>>),
                                             ModelElement("image", <<1, 1>>, "x", <<>>)>>)

\* the m-th record is of a listener fired for a child of the figure while
\* the n-th listener (fired for the figure) was running: convertItem and
\* convertChildren hand the child's listeners the data.context array of
\* the caller (depth 0: not the copy convertHoistableImage makes)
FiredForChildDuring(m, n) ==
    /\ m < n
    /\ Len(conv.fired[m].path) = 2
    /\ conv.fired[m].depth = 0

(* C17: the context chain is never mutated by a converter.  The array      *)
(* handed to viewFigureToModel and to convertHoistableImage holds the      *)
(* entries it held on entry when the converter returns, and at every step  *)
(* in between: the listeners viewFigureToModel has fired for the children  *)
(* of the figure find it as it was handed in.                              *)
ContextChainNeverMutated ==
    pc = "done" =>
        \A n \in 1..Len(conv.fired) :
            /\ conv.fired[n].listener = "convertHoistableImage" =>
                  conv.fired[n].after.context = conv.fired[n].before.context
            /\ FigureFired(n) =>
                  /\ conv.fired[n].after.context = conv.fired[n].before.context
                  /\ \A m \in 1..Len(conv.fired) :
                        FiredForChildDuring(m, n) =>
                            /\ conv.fired[m].before.context = conv.fired[n].before.context
                            /\ conv.fired[m].after.context = conv.fired[n].before.context

\* C17 for the state the converters leave the chain in when they return
\* without an exception
ContextChainRestored ==
    Completed =>
        \A n \in 1..Len(conv.fired) :
            conv.fired[n].listener \in {"convertHoistableImage", "viewFigureToModel"} =>
                conv.fired[n].after.context = conv.fired[n].before.context

----------------------------------------------------------------------------
(* Claims about the dispatch of one <img> (SpecImg).                       *)

(* C10: every <img> conversion terminates without a fault: the dispatch    *)
(* ends, convertHoistableImage's re-dispatch of the <img> leads to no      *)
(* further re-dispatch (depth at most one), and a result, if any, is the   *)
(* image of an <img> with a non-empty src; otherwise there is no node.     *)
ImgConversionTerminates ==
    pc = "done" =>
        /\ ~conv.fault
        /\ \A n \in 1..Len(conv.fired) : conv.fired[n].depth <= 1
        /\ HasNode(conv.output) =>
              /\ MatchesAny(viewInput.src)
              /\ conv.output = ImageFor(viewInput, <<1>>)

\* C10 for every <img> but those with an empty src
ImgConversionTerminatesUnlessEmptySrc == viewInput.src # "" => ImgConversionTerminates

\* in the dispatch the n-th record belongs to, the listener named fired
\* just before the n-th one did
FiredJustAfter(n, listener) ==
    \E m \in 1..(n - 1) :
        /\ conv.fired[m].listener = listener
        /\ conv.fired[m].path = conv.fired[n].path
        /\ conv.fired[m].depth = conv.fired[n].depth
        /\ conv.fired[m].after = conv.fired[n].before

\* the context and the consumable the dispatch of the <img> started with
OriginalContext == conv.fired[1].before.context

OriginallyConsumed == conv.fired[1].before.consumed

(* C13: only structurally declined images are marked.  In every dispatch   *)
(* of an <img> convertHoistableImage fires right after the <img>           *)
(* converter; an <img> with a non-empty src whose image is valid at its    *)
(* context is converted by the <img> converter (when nothing took it       *)
(* before) and is never marked; a node is marked only if the image was not *)
(* valid at the original context of the <img>.                             *)
OnlyDeclinedImagesMarked ==
    pc = "done" =>
        /\ \A n \in 1..Len(conv.fired) :
              conv.fired[n].listener = "convertHoistableImage" => FiredJustAfter(n, "viewImageToModel")
        /\ (MatchesAny(viewInput.src) /\ SchemaCheck(schema, OriginalContext)) =>
              /\ conv.autohoisted = {}
              /\ OriginallyConsumed = {} =>
                    /\ conv.fired[1].listener = "viewImageToModel"
                    /\ conv.fired[1].after.output = ModelElement("image", <<1>>, viewInput.src, <<>>)
                    /\ conv.output = ImageFor(viewInput, <<1>>)
        /\ conv.autohoisted # {} => ~SchemaCheck(schema, OriginalContext)

\* the listeners that took the alt marker of the <img>, as indices into conv.fired
AltConsumptions ==
    {n \in 1..Len(conv.fired) :
        /\ conv.fired[n].listener = "viewAltToModel"
        /\ <<<<1>>, "alt">> \notin conv.fired[n].before.consumed
        /\ <<<<1>>, "alt">> \in conv.fired[n].after.consumed}

\* the <img> has been converted by hoisting: its image is marked
ConvertedByHoisting == Completed /\ conv.autohoisted # {}

(* C18: alt attribute ordering.  In every dispatch of an <img> the alt     *)
(* converter fires after convertHoistableImage; for an <img> with src and  *)
(* alt that is converted by hoisting, the hoisted image has both the src   *)
(* and the alt of the <img>, and the alt marker is consumed exactly once.  *)
AltSetOnHoistedImage ==
    pc = "done" =>
        /\ \A n \in 1..Len(conv.fired) :
              conv.fired[n].listener = "viewAltToModel" =>
                  \E m \in 1..(n - 1) :
                      /\ conv.fired[m].listener = "convertHoistableImage"
                      /\ conv.fired[m].path = conv.fired[n].path
                      /\ conv.fired[m].depth = conv.fired[n].depth
        /\ (ConvertedByHoisting /\ viewInput.src # Absent /\ viewInput.alt # Absent) =>
              /\ conv.output.name = "image"
              /\ conv.output.id \in conv.autohoisted
              /\ conv.output.src = viewInput.src
              /\ conv.output.alt = viewInput.alt
              /\ Cardinality(AltConsumptions) = 1

\* C18 for every <img> but those with an empty alt
AltSetOnHoistedImageNonEmptyAlt == viewInput.alt # "" => AltSetOnHoistedImage

\* <img src="x" alt="x"> hoisted: the image carries src and alt
HoistedImageHasAlt ==
    /\ ConvertedByHoisting
    /\ viewInput = ViewImg("x", "x")
    /\ conv.output = [ModelElement("image", <<1>>, "x", <<>>) EXCEPT !.alt = "x"]
    /\ Cardinality(AltConsumptions) = 1

\* <img src="x"> where image is allowed: converted in place, convertHoistableImage
\* fired and marked nothing
ValidImgNotMarked ==
    /\ pc = "done"
    /\ viewInput.src = "x"
    /\ SchemaCheck(schema, OriginalContext)
    /\ OriginallyConsumed = {}
    /\ \E n \in 1..Len(conv.fired) :
          /\ conv.fired[n].listener = "convertHoistableImage"
          /\ conv.fired[n].after = conv.fired[n].before
    /\ conv.output.name = "image"
    /\ conv.autohoisted = {}

----------------------------------------------------------------------------
(* Model -> view.                                                          *)
(*                                                                         *)
(* sync holds the image model item, the view figure the mapper binds to    *)
(* it, the attribute event the dispatcher last made a consumable for, the  *)
(* markers left in that consumable, and the count of attribute mutations   *)
(* made on the <img> since.                                                *)

\* createImageViewElement: <figure class="image"><img></img></figure>
CreateImageViewElement == ViewElement("figure", "image", <<ViewImg(Absent, Absent)>>)

NoEvent == [kind |-> "", key |-> "", value |-> Absent]

\* modelToViewAttributeConverter reading the marker without consuming it
ModelToViewAttributeConverterTesting(s, evt) ==
    LET consumableType == <<evt.kind, evt.key>>
    IN  IF consumableType \notin s.consumable
        THEN s
        ELSE [s EXCEPT !.figure.ch[1][evt.key] =
                           IF evt.kind = "removeAttribute" THEN Absent ELSE evt.value,
                       !.mutations = @ + 1]

\* modelToViewAttributeConverter for the event evt = [kind, key, value]
\* (evt.name is kind:key:image, data.attributeKey, data.attributeNewValue)
ModelToViewAttributeConverter(s, evt) ==
    LET consumableType == <<evt.kind, evt.key>>
    IN  IF consumableType \notin s.consumable
        THEN s
        ELSE [s EXCEPT !.consumable = @ \ {consumableType},
                       !.figure.ch[1][evt.key] =
                           IF evt.kind = "removeAttribute" THEN Absent ELSE evt.value,
                       !.mutations = @ + 1]

\* the attributes set on a model item
AttributeKeys(item) == {key \in {"src", "alt"} : item[key] # Absent}

\* The dispatcher converting the insertion of the item: a consumable with a
\* marker for every attribute, the element converter of imageengine.js
\* 45-47, then addAttribute fired for every attribute.
ConvertInsertion(s) ==
    LET inserted == [s EXCEPT !.figure = CreateImageViewElement,
                              !.consumable = {<<"addAttribute", key>> : key \in AttributeKeys(s.item)},
                              !.event = NoEvent, !.mutations = 0, !.dispatches = 0]
        withSrc == IF "src" \in AttributeKeys(s.item)
                   THEN ModelToViewAttributeConverter(inserted,
                            [kind |-> "addAttribute", key |-> "src", value |-> s.item.src])
                   ELSE inserted
        withAlt == IF "alt" \in AttributeKeys(s.item)
                   THEN ModelToViewAttributeConverter(withSrc,
                            [kind |-> "addAttribute", key |-> "alt", value |-> s.item.alt])
                   ELSE withSrc
    IN  [withAlt EXCEPT !.mutations = 0]

----------------------------------------------------------------------------
(* Specification SpecSync: an image with a valid (src, alt) pair, given as *)
(* a model item or as a view figure, is converted to the other side and    *)
(* back; the attributes of a bound item are added, changed and removed,    *)
(* and the event of a change is dispatched up to MaxDispatch times.        *)

\* a non-empty src; alt absent, empty or not
SrcValues == {"x", "y"}

AltValues == {Absent, "", "x"}

\* the model item is an image
HasItem == sync.item.kind = "element"

\* the mapper has a view figure for the item
HasFigure == sync.figure.name = "figure"

InitSync ==
    /\ pc = "ready"
    /\ schema = [image |-> {}, inside |-> {"$root"}, limits |-> {}]
    /\ \E side \in {"model", "view"}, src \in SrcValues, alt \in AltValues :
          sync = [origin |-> [side |-> side, src |-> src, alt |-> alt],
                  item |-> IF side = "model"
                           THEN [ModelElement("image", <<1, 1>>, src, <<>>) EXCEPT !.alt = alt]
                           ELSE NoOutput,
                  figure |-> IF side = "view"
                             THEN ViewElement("figure", "image", <<ViewImg(src, alt)>>)
                             ELSE ViewText,
                  event |-> NoEvent, consumable |-> {}, mutations |-> 0, dispatches |-> 0,
                  done |-> <<>>, changes |-> 0]
    /\ IdleFind
    /\ IdleHoist
    /\ IdleConv

\* data.toView: the model image converted to its view figure
ToView ==
    /\ HasItem
    /\ Len(sync.done) < MaxTrips
    /\ sync' = [ConvertInsertion(sync) EXCEPT !.done = Append(@, "toView")]
    /\ UNCHANGED <<pc, schema, context, allowedContext, dataOutput, autohoistedImages, original,
                   viewInput, conv>>

\* data.toModel: the view figure converted in $root
ToModel ==
    /\ HasFigure
    /\ Len(sync.done) < MaxTrips
    /\ sync' = [sync EXCEPT !.item = ConvertItem(sync.figure, <<1>>, NewData(<<"$root">>, {}), 0).output,
                            !.event = NoEvent, !.consumable = {},
                            !.mutations = 0, !.dispatches = 0,
                            !.done = Append(@, "toModel")]
    /\ UNCHANGED <<pc, schema, context, allowedContext, dataOutput, autohoistedImages, original,
                   viewInput, conv>>

\* An attribute of the bound item is added, changed or removed in the
\* model; the dispatcher makes the consumable of the change.
ChangeAttribute ==
    /\ HasItem /\ HasFigure
    /\ sync.changes < MaxChanges
    /\ \E kind \in {"addAttribute", "changeAttribute", "removeAttribute"},
          key \in {"src", "alt"}, value \in {"", "x", "y"} :
          /\ kind = "addAttribute" => sync.item[key] = Absent
          /\ kind = "changeAttribute" => sync.item[key] \notin {Absent, value}
          /\ kind = "removeAttribute" => key = "alt" /\ sync.item[key] # Absent /\ value = ""
          /\ key = "src" => value # ""
          /\ sync' = [sync EXCEPT !.item[key] = IF kind = "removeAttribute" THEN Absent ELSE value,
                                  !.event = [kind |-> kind, key |-> key,
                                             value |-> IF kind = "removeAttribute" THEN Absent ELSE value],
                                  !.consumable = {<<kind, key>>},
                                  !.mutations = 0, !.dispatches = 0,
                                  !.changes = @ + 1]
    /\ UNCHANGED <<pc, schema, context, allowedContext, dataOutput, autohoistedImages, original,
                   viewInput, conv>>

\* The event of the change is fired: modelToViewAttributeConverter runs.
DispatchAttribute ==
    /\ sync.event # NoEvent
    /\ sync.dispatches < MaxDispatch
    /\ sync' = [ModelToViewAttributeConverter(sync, sync.event) EXCEPT !.dispatches = @ + 1]
    /\ UNCHANGED <<pc, schema, context, allowedContext, dataOutput, autohoistedImages, original,
                   viewInput, conv>>

NextSync == ToView \/ ToModel \/ ChangeAttribute \/ DispatchAttribute

SpecSync == InitSync /\ [][NextSync]_vars

\* the <img> nested in the figure
Img == sync.figure.ch[1]

(* C7: round trip.  A view figure with a valid (src, alt) pair converted   *)
(* to the model and back is a figure with class image holding an <img>     *)
(* with the same src and alt; a model image converted to the view and      *)
(* back has the same src and alt.                                          *)
RoundTrip ==
    /\ (sync.origin.side = "view" /\ sync.done = <<"toModel", "toView">> /\ sync.changes = 0) =>
          sync.figure = ViewElement("figure", "image", <<ViewImg(sync.origin.src, sync.origin.alt)>>)
    /\ (sync.origin.side = "model" /\ sync.done = <<"toView", "toModel">> /\ sync.changes = 0) =>
          /\ HasItem
          /\ sync.item.name = "image"
          /\ sync.item.src = sync.origin.src
          /\ sync.item.alt = sync.origin.alt

\* C7 for the pairs whose alt is absent or non-empty
RoundTripNonEmptyAlt == sync.origin.alt # "" => RoundTrip

(* C8: attribute sync is idempotent within a pass.  However often the      *)
(* event of a change is dispatched, the <img> is mutated once: the first   *)
(* dispatch consumes the marker and sets or removes the attribute, a       *)
(* later one finds it consumed and changes nothing.                        *)
AttributeSyncIdempotent ==
    sync.dispatches >= 1 =>
        /\ sync.mutations = 1
        /\ sync.consumable = {}
        /\ Img[sync.event.key] = sync.event.value

\* the same event dispatched twice, one mutation
DispatchedTwice ==
    /\ sync.dispatches = 2
    /\ sync.mutations = 1
    /\ sync.event.kind = "removeAttribute"
    /\ Img.alt = Absent

====
